---- MODULE Spec2Model ----
(***************************************************************************)
(* Chunked upload, completion detection and assembly of the video API:     *)
(* VideoUploadManager.save_chunk / assemble_video and the POST             *)
(* /video/upload route (src/src/api/vid_api.py), whose storage code        *)
(* ChunkedUploadManager (src/src/api/chunk_api.py) repeats line for line.  *)
(*                                                                         *)
(* The file system is the state: one directory of chunk files per upload   *)
(* id under uploads/chunks and one file <upload_id>.mp4 per upload id      *)
(* under uploads/videos.  A handler of the route is a coroutine; it can be *)
(* suspended at its awaits (opening the chunk file, writing and closing    *)
(* it), and between two awaits it runs without interruption.               *)
(*                                                                         *)
(* With it: the POST /video/process route and the background job it hands  *)
(* to BackgroundTasks (VideoUploadManager.process_video), the GET          *)
(* /check_upload/{upload_id} route of chunk_api.py, which reads the same   *)
(* uploads/chunks directory, and GeminiProcessor.process with its retried  *)
(* _process_chunk (src/src/ai_integration/gemini_processor.py).            *)
(***************************************************************************)
EXTENDS Integers, Sequences, FiniteSets, TLC

\* ------------------------------------------------------------- bounds
MaxByte == 2
MaxChunk == 2
MaxTotal == 2
MaxInFlight == 2
MaxRequests == 3
MaxClientIds == 1
MaxPayload == 2
MaxFile == 3
MaxChunkSize == 2
MaxWords == 2
MaxEntries == 2
MaxSpellings == 2
MaxTextWords == 3
MaxMaxTokens == 2
MaxConfigValue == 2
MaxCalls == 3

Bytes == 1..MaxByte
\* The body of a fragment: here one byte, enough to tell fragments apart.
Payloads == {<<b>> : b \in Bytes}
\* Bodies of 1..MaxPayload bytes.
LongPayloads == UNION {[1..n -> Bytes] : n \in 1..MaxPayload}
ChunkNumbers == 0..MaxChunk
Totals == 1..MaxTotal
Slots == 1..MaxInFlight

\* ------------------------------------------------------------- upload ids
\* upload_id: Optional[str] = None
None == [kind |-> "none", n |-> 0]
ClientId(i) == [kind |-> "client", n |-> i]
\* str(uuid.uuid4()): the n-th identifier drawn; no two draws are equal.
Uuid4(n) == [kind |-> "uuid", n |-> n]
ClientIds == {ClientId(i) : i \in 1..MaxClientIds}
UploadIds == ClientIds \cup {Uuid4(i) : i \in 1..MaxRequests}

\* ------------------------------------------------------------- file names
\* The decimal digits of n, most significant first (n >= 0).
RECURSIVE Digits(_)
Digits(n) == IF n < 10 THEN <<n>> ELSE Append(Digits(n \div 10), n % 10)

RECURSIVE ZeroPad(_, _)
ZeroPad(ds, width) == IF Len(ds) >= width THEN ds ELSE ZeroPad(<<0>> \o ds, width)

\* f'chunk_{chunk_number:04d}' for chunk_number >= 0.
ChunkFilename(chunk_number) ==
    [prefix |-> "chunk_", digits |-> ZeroPad(Digits(chunk_number), 4)]

\* f.startswith('Chunk_'): no chunk file has such a name.
StartsWithChunkCapital(name) == name.prefix = "Chunk_"

\* f.startswith('chunk_')
StartsWithChunk(name) == name.prefix = "chunk_"

\* int(x.split('_')[1])
RECURSIVE IntOfDigits(_)
IntOfDigits(ds) ==
    IF Len(ds) = 0 THEN 0
    ELSE 10 * IntOfDigits(SubSeq(ds, 1, Len(ds) - 1)) + ds[Len(ds)]

ChunkKey(name) == IntOfDigits(name.digits)

\* ------------------------------------------------------------- files
\* open(path, 'r+b' or 'ab'): a file that exists keeps its bytes.
OpenWithoutTruncating(dir, name) ==
    [n \in DOMAIN dir \cup {name} |-> IF n \in DOMAIN dir THEN dir[n] ELSE <<>>]

\* open(path, 'wb'): the file exists afterwards and is empty.
OpenWb(dir, name) ==
    [n \in DOMAIN dir \cup {name} |-> IF n = name THEN <<>> ELSE dir[n]]

\* write(content) through a handle opened with 'wb' whose position is 0, then
\* close: the bytes land at offset 0 of whatever the file holds by then.
WriteFromStart(dir, name, content) ==
    [dir EXCEPT ![name] = content \o SubSeq(@, Len(content) + 1, Len(@))]

\* [f for f in os.listdir(chunk_dir) if f.startswith('chunk_')]
ListChunks(dir) == {n \in DOMAIN dir : StartsWithChunk(n)}

\* The listing sorted the other way round.
RECURSIVE SortedByKeyDescending(_)
SortedByKeyDescending(names) ==
    IF names = {} THEN <<>>
    ELSE LET first == CHOOSE n \in names :
                         \A m \in names : ChunkKey(n) >= ChunkKey(m)
         IN  <<first>> \o SortedByKeyDescending(names \ {first})

\* sorted(names, key=lambda x: int(x.split('_')[1]))
RECURSIVE SortedByKey(_)
SortedByKey(names) ==
    IF names = {} THEN <<>>
    ELSE LET first == CHOOSE n \in names :
                         \A m \in names : ChunkKey(n) <= ChunkKey(m)
         IN  <<first>> \o SortedByKey(names \ {first})

NoFile == [exists |-> FALSE, content |-> <<>>]

\* ------------------------------------------------------------- the request
(* What a POST /video/upload carries: the file part, and chunk_number,      *)
(* total_chunks and upload_id either in the query string or as fields of    *)
(* the multipart form.                                                      *)
Places == {"query", "form"}

\* upload_chunk(file = File(...), chunk_number: int = 1, total_chunks: int = 1,
\* upload_id: Optional[str] = None): parameters of plain types declared
\* without Form() are read from the query string; a form field of the same
\* name is not looked at and the default stands.
UploadChunkParams(sent) ==
    IF sent.place = "query"
    THEN [chunk_number |-> sent.chunk_number,
          total_chunks |-> sent.total_chunks,
          upload_id    |-> sent.upload_id]
    ELSE [chunk_number |-> 1, total_chunks |-> 1, upload_id |-> None]

NoPath == [dir |-> "", name |-> None]
\* What save_chunk returns, with the video_path upload_chunk adds to it.
NoResult == [status |-> "none", chunks_uploaded |-> 0, video_path |-> NoPath]
\* ChunkedUploadResponse(upload_id, status, total_chunks), sent with 200.
NoResponse == [code |-> 0, upload_id |-> None, status |-> "none", total_chunks |-> 0]
NoSent == [place |-> "query", chunk_number |-> 1, total_chunks |-> 1,
           upload_id |-> None, file |-> <<>>]
IdleHandler == [pc |-> "idle", sent |-> NoSent, upload_id |-> None,
                result |-> NoResult, response |-> NoResponse]

VARIABLES
    chunks,     \* uploads/chunks/<upload_id>/: file name -> content
    videos,     \* uploads/videos/<upload_id>.mp4
    uuids,      \* how many uuid4 identifiers have been drawn
    h,          \* the handlers of POST /video/upload, one per slot
    nreq,       \* how many requests have arrived
    declared,   \* per upload id, the total_chunks values accepted so far
    client,     \* the client that uploads one file chunk by chunk, if any
    tasks,      \* the jobs POST /video/process has handed to BackgroundTasks
    replies,    \* the responses of POST /video/process, in order
    processed,  \* uploads/processed/<upload_id>.mp4_results.json
    checked,    \* the last GET /check_upload/{upload_id} and its response
    ai,         \* GeminiProcessor.process at work on a text_data
    config      \* the class ConfigManager, the files it reads and the calls made

vars == <<chunks, videos, uuids, h, nreq, declared, client,
          tasks, replies, processed, checked, ai, config>>

\* What the upload route and its client leave alone.
others == <<tasks, replies, processed, checked, ai, config>>

Params(r) == UploadChunkParams(h[r].sent)

\* Ids a client can send: its own, or one a response has told it.
KnownIds == ClientIds \cup {u \in UploadIds : u.kind = "uuid" /\ declared[u] # {}}

Requests ==
    [place : {"query"}, chunk_number : ChunkNumbers, total_chunks : Totals,
     upload_id : KnownIds \cup {None}, file : Payloads]

\* The same with bodies of several lengths.
SeqRequests ==
    [place : {"query"}, chunk_number : ChunkNumbers, total_chunks : Totals,
     upload_id : KnownIds \cup {None}, file : LongPayloads]

\* A slot whose handler has returned can take the next request; which free
\* slot takes it is immaterial, so the least one does.
FreeSlots == {r \in Slots : h[r].pc \in {"idle", "done"}}

\* ------------------------------------------------------------- save_chunk
\* is_complete = uploaded_chunks >= total_chunks
SaveChunkResultAtLeast(dir, total_chunks) ==
    LET uploaded_chunks == Cardinality({n \in DOMAIN dir : n.prefix = "chunk_"})
    IN  [status |-> IF uploaded_chunks >= total_chunks THEN "completed" ELSE "partial",
         chunks_uploaded |-> uploaded_chunks, video_path |-> NoPath]

\* uploaded_chunks = len([...]); is_complete = uploaded_chunks == total_chunks
SaveChunkResult(dir, total_chunks) ==
    LET uploaded_chunks == Cardinality(ListChunks(dir))
    IN  [status |-> IF uploaded_chunks = total_chunks THEN "completed" ELSE "partial",
         chunks_uploaded |-> uploaded_chunks, video_path |-> NoPath]

\* ------------------------------------------------------------- assemble_video
RECURSIVE ConcatFiles(_, _)
ConcatFiles(dir, names) ==
    IF Len(names) = 0 THEN <<>>
    ELSE dir[Head(names)] \o ConcatFiles(dir, Tail(names))

\* open(video_path, 'ab'): the chunks are appended to what the file holds.
AssembleVideoAppending(video, dir) ==
    [exists |-> TRUE,
     content |-> video.content \o ConcatFiles(dir, SortedByKey(ListChunks(dir)))]

\* with open(video_path, 'wb') as outfile: for chunk_name in chunks: ...
\* 'wb' empties the file `video` if there is one, and creates it if not.
AssembleVideo(video, dir) ==
    [exists |-> TRUE, content |-> ConcatFiles(dir, SortedByKey(ListChunks(dir)))]

\* video_path = os.path.join('uploads/videos', f'{upload_id}.mp4')
VideoPath(upload_id) == [dir |-> "uploads/videos", name |-> upload_id]

\* ------------------------------------------------------------- the client
(* A client that uploads a file in chunks through POST /video/upload:      *)
(* VideoChunkUploader.upload_video_in_chunks ("uploader"), and the loop of  *)
(* test_chunk_upload_and_processing ("test"), which sends no upload_id with *)
(* its first chunk and afterwards the one the first response carried.       *)
NoClient == [kind |-> "none", file |-> <<>>, chunk_size |-> 1, total_chunks |-> 0,
             chunk_number |-> 1, upload_id |-> None, pc |-> "none",
             responses |-> <<>>]

Files == UNION {[1..n -> Bytes] : n \in 0..MaxFile}
ChunkSizes == 1..MaxChunkSize

TotalChunksRoundedDown(file_size, chunk_size) == file_size \div chunk_size

\* total_chunks = (file_size + chunk_size - 1) // chunk_size
TotalChunks(file_size, chunk_size) == (file_size + chunk_size - 1) \div chunk_size

Min(a, b) == IF a <= b THEN a ELSE b

\* The chunk_number-th file.read(chunk_size) of a file read from its start.
FileRead(file, chunk_size, chunk_number) ==
    SubSeq(file, (chunk_number - 1) * chunk_size + 1,
           Min(chunk_number * chunk_size, Len(file)))

\* requests.post(url, files = {'file': chunk}, data = {...}): the fields of
\* data travel in the multipart form.
ClientRequest(c) ==
    [place |-> "form", chunk_number |-> c.chunk_number,
     total_chunks |-> c.total_chunks, upload_id |-> c.upload_id,
     file |-> FileRead(c.file, c.chunk_size, c.chunk_number)]

\* ------------------------------------------------------------- POST /video/process
\* processing_options: Optional[List[str]]; None and [] alike are falsy, and
\* a list is looked at only through `in`.
ProcessingOptions == {{}, {"ai_insights"}}

\* What process_video returned for a job that has not run.
NotReturned == [error |-> "", results_path |-> NoPath]

\* await upload_manager.process_video(...): the job run inside the request.
RunInRequest(video_path, processing_options) ==
    [video_path |-> video_path, processing_options |-> processing_options,
     state |-> "finished", raised |-> FALSE, returned |-> NotReturned]

\* background_tasks.add_task(upload_manager.process_video, video_path,
\* request.processing_options): the job is recorded, to run after the response.
AddTask(video_path, processing_options) ==
    [video_path |-> video_path, processing_options |-> processing_options,
     state |-> "scheduled", raised |-> FALSE, returned |-> NotReturned]

\* JSONResponse({'status': 'processing_started', 'upload_id': request.upload_id})
ProcessingStarted(upload_id) ==
    [code |-> 200, status |-> "processing_started", upload_id |-> upload_id]

(* VideoProcessor.process_video(uploaded_file, interval): it begins with     *)
(* _validate_video, which reads uploaded_file.size and uploaded_file.name,   *)
(* attributes of an uploaded file object that a str does not have.           *)
VideoProcessorProcessVideo(uploaded_file) ==
    IF uploaded_file.type = "str"
    THEN [raised |-> TRUE, error |-> "AttributeError"]
    ELSE [raised |-> FALSE, error |-> ""]

\* os.path.join('uploads/processed', f'{os.path.basename(video_path)}_results.json')
ResultsPath(video_path) == [dir |-> "uploads/processed", name |-> video_path.name]

NoRecord == [exists |-> FALSE, ai_insights |-> FALSE, error |-> ""]

(* VideoUploadManager.process_video(video_path, processing_options): the     *)
(* video_path, a str, goes to video_processor.process_video; the results     *)
(* are saved when nothing raised, and an exception becomes the returned      *)
(* {'error': str(e)}.                                                        *)
ProcessVideo(video_path, processing_options) ==
    LET processed_frames ==
            VideoProcessorProcessVideo([type |-> "str", value |-> video_path])
    IN  IF processed_frames.raised
        THEN [raised |-> FALSE, saved |-> FALSE, record |-> NoRecord,
              returned |-> [error |-> processed_frames.error, results_path |-> NoPath]]
        ELSE [raised |-> FALSE, saved |-> TRUE,
              record |-> [exists |-> TRUE,
                          ai_insights |-> "ai_insights" \in processing_options,
                          error |-> ""],
              returned |-> [error |-> "", results_path |-> ResultsPath(video_path)]]

\* ------------------------------------------------------------- GET /check_upload
NoCheck == [upload_id |-> None, response |-> [code |-> 0, status |-> "none"]]

\* os.path.exists(chunk_dir): save_chunk makes the directory of an upload and
\* opens a chunk file in it, and neither is ever removed.
PathExists(dir) == DOMAIN dir # {}

\* chunks = [f for f in ... if os.path.getsize(f) > 0]: the files written to.
CheckUploadStatusOfWritten(upload_id, dir) ==
    IF ~PathExists(dir)
    THEN [code |-> 404, status |-> "not_found", message |-> "No upload found with this ID"]
    ELSE [code |-> 200, status |-> "in_progress", upload_id |-> upload_id,
          chunks_uploaded |-> Cardinality({f \in ListChunks(dir) : dir[f] # <<>>})]

\* check_upload_status(upload_id) on the directory uploads/chunks/<upload_id>
CheckUploadStatusResponse(upload_id, dir) ==
    IF ~PathExists(dir)
    THEN [code |-> 404, status |-> "not_found", message |-> "No upload found with this ID"]
    ELSE [code |-> 200, status |-> "in_progress", upload_id |-> upload_id,
          chunks_uploaded |-> Cardinality(ListChunks(dir))]

\* ------------------------------------------------------------- ConfigManager
\* The keys a YAML file may hold and the values under them; None is 0.
ConfigKeys == {"model_name"}
ConfigValues == 1..MaxConfigValue
Dicts == UNION {[K -> ConfigValues] : K \in SUBSET ConfigKeys}
EmptyDict == [key \in {} |-> 0]

(* configs/app_config.yaml and configs/ai_config.yaml: missing, not YAML,   *)
(* or a mapping.                                                            *)
YamlFiles ==
    {[found |-> FALSE, valid |-> TRUE, content |-> EmptyDict],
     [found |-> TRUE, valid |-> FALSE, content |-> EmptyDict]}
    \cup {[found |-> TRUE, valid |-> TRUE, content |-> d] : d \in Dicts}

\* _load_yaml: FileNotFoundError and yaml.YAMLError give {}.
LoadYaml(file) == IF file.found /\ file.valid THEN file.content ELSE EmptyDict

\* _instance = None
NoInstance == [made |-> FALSE, attributes |-> {}, app_config |-> EmptyDict,
               ai_config |-> EmptyDict]

\* super(ConfigManager, cls).__new__(cls): an object with no attribute set.
NewInstance == [made |-> TRUE, attributes |-> {}, app_config |-> EmptyDict,
                ai_config |-> EmptyDict]

\* The methods the class ConfigManager defines.
Methods == {"__new__", "_load_configs", "_load_yaml", "get_config"}

\* _load_configs
LoadConfigs(self, files) ==
    [self EXCEPT !.attributes = @ \cup {"app_config", "ai_config"},
                 !.app_config = LoadYaml(files.app),
                 !.ai_config = LoadYaml(files.ai)]

\* dict.get(key, default)
DictGet(dict, key, default) == IF key \in DOMAIN dict THEN dict[key] ELSE default

\* config_map.get(config_type, {}).get(key, default)
GetConfigValue(self, config_type, key, default) ==
    IF config_type = "app" THEN DictGet(self.app_config, key, default)
    ELSE IF config_type = "ai" THEN DictGet(self.ai_config, key, default)
    ELSE default

\* What a call is asked; ConfigManager() has no arguments.
ConfigTypes == {"app", "ai", "db"}
AskedKeys == ConfigKeys \cup {"max_file_size"}
NoArguments == [config_type |-> "", key |-> "", default |-> 0]

NoConfig == [files |-> [app |-> [found |-> FALSE, valid |-> TRUE, content |-> EmptyDict],
                        ai |-> [found |-> FALSE, valid |-> TRUE, content |-> EmptyDict]],
             cls_instance |-> NoInstance, calls |-> <<>>]

\* ------------------------------------------------------------- GeminiProcessor
NoAi == [pc |-> "none"]

\* def _chunk_text(self, text, max_tokens: int = 2000)
DefaultMaxTokens == 2000
\* @retry(stop=stop_after_attempt(3), ...)
StopAfterAttempt == 3

(* A word of a text, as far as _chunk_text looks at it: the number of       *)
(* tokens token_counter.count_tokens finds in it.  A text is the sequence   *)
(* text.split() of its words, a chunk the sequence of words ' '.join joins. *)
TokenCounts == {1, DefaultMaxTokens}
Words == [tokens : TokenCounts]
CountTokens(word) == word.tokens
Texts == UNION {[1..n -> Words] : n \in 0..MaxWords}
\* text_data: the entries, each with its 'text'.
TextData == UNION {[1..n -> [text : Texts]] : n \in 0..MaxEntries}

\* The for loop of _chunk_text and what follows it.
RECURSIVE ChunkTextLoop(_, _, _, _, _)
ChunkTextLoop(words, max_tokens, chunks_, current_chunk, current_token_count) ==
    IF words = <<>>
    THEN IF current_chunk # <<>> THEN Append(chunks_, current_chunk) ELSE chunks_
    ELSE LET word == Head(words)
             word_tokens == CountTokens(word)
         IN  IF current_token_count + word_tokens > max_tokens
             THEN ChunkTextLoop(Tail(words), max_tokens,
                                Append(chunks_, current_chunk), <<word>>, word_tokens)
             ELSE ChunkTextLoop(Tail(words), max_tokens, chunks_,
                                Append(current_chunk, word),
                                current_token_count + word_tokens)

ChunkText(words, max_tokens) == ChunkTextLoop(words, max_tokens, <<>>, <<>>, 0)

(* What the calls model.generate_content / parser.parse do for one chunk,   *)
(* attempt after attempt: return an insight ("ok") or raise ("raise").      *)
Outcomes == {"ok", "raise"}
Scripts == [1..StopAfterAttempt -> Outcomes]

\* parser.parse(response.text): the insight the model gave.
ParsedInsight ==
    [sentiment |-> "Positive", keywords |-> <<"keyword">>,
     summary |-> "summary", complexity |-> "Medium"]

\* TextInsight(sentiment="Unknown", keywords=[], ...)
DefaultInsight ==
    [sentiment |-> "Unknown", keywords |-> <<>>,
     summary |-> "Error processing chunk", complexity |-> "N/A"]

\* The body without its try/except: the exception leaves the function.
ProcessChunkBodyRaising(outcome) ==
    IF outcome = "ok"
    THEN [raised |-> FALSE, insight |-> ParsedInsight]
    ELSE [raised |-> TRUE, insight |-> DefaultInsight]

(* One call of the body of _process_chunk: the try returns the parsed       *)
(* insight, and the except clause returns the default one; no exception     *)
(* leaves the body.                                                         *)
ProcessChunkBody(outcome) ==
    IF outcome = "ok"
    THEN [raised |-> FALSE, insight |-> ParsedInsight]
    ELSE [raised |-> FALSE, insight |-> DefaultInsight]

(* tenacity's retry around the body: call it; when it raised and fewer than *)
(* StopAfterAttempt attempts were made, wait and call again; when it raised *)
(* on the last attempt, raise RetryError; when it returned, return that.    *)
RECURSIVE Retrying(_, _)
Retrying(script, attempt_number) ==
    LET call == ProcessChunkBody(script[attempt_number])
    IN  IF ~call.raised
        THEN [raised |-> FALSE, insight |-> call.insight, attempts |-> attempt_number]
        ELSE IF attempt_number >= StopAfterAttempt
             THEN [raised |-> TRUE, insight |-> call.insight, attempts |-> attempt_number]
             ELSE Retrying(script, attempt_number + 1)

\* self._process_chunk(chunk), the AI behaving as the script says
ProcessChunk(script) == Retrying(script, 1)

\* The state of everything but the upload route before any request.
NothingElse ==
    /\ tasks = <<>>
    /\ replies = <<>>
    /\ processed = [u \in UploadIds |-> NoRecord]
    /\ checked = NoCheck
    /\ ai = NoAi
    /\ config = NoConfig

\* ------------------------------------------------------------- actions
Init ==
    /\ chunks = [u \in UploadIds |-> << >>]
    /\ videos = [u \in UploadIds |-> NoFile]
    /\ uuids = 0
    /\ h = [r \in Slots |-> IdleHandler]
    /\ nreq = 0
    /\ declared = [u \in UploadIds |-> {}]
    /\ client = NoClient
    /\ NothingElse

(* upload_chunk up to its first suspension: the parameters are bound, an    *)
(* upload id is drawn if none came, the upload's directory is made and the  *)
(* chunk file is opened with 'wb'.                                          *)
Start(r, sent) ==
    /\ nreq < MaxRequests
    /\ nreq' = nreq + 1
    /\ r \in FreeSlots
    /\ \A q \in FreeSlots : r <= q
    /\ LET p == UploadChunkParams(sent)
           fresh == p.upload_id = None
           u == IF fresh THEN Uuid4(uuids + 1) ELSE p.upload_id
       IN  /\ uuids' = IF fresh THEN uuids + 1 ELSE uuids
           /\ chunks' = [chunks EXCEPT ![u] = OpenWb(@, ChunkFilename(p.chunk_number))]
           /\ h' = [h EXCEPT ![r] = [pc |-> "opened", sent |-> sent, upload_id |-> u,
                                     result |-> NoResult, response |-> NoResponse]]
    /\ UNCHANGED <<videos, declared, client>>
    /\ UNCHANGED others

\* content = await file.read(); await chunk_file.write(content); close
Write(r) ==
    /\ h[r].pc = "opened"
    /\ chunks' = [chunks EXCEPT ![h[r].upload_id] =
                     WriteFromStart(@, ChunkFilename(Params(r).chunk_number), h[r].sent.file)]
    /\ h' = [h EXCEPT ![r].pc = "written"]
    /\ UNCHANGED <<videos, uuids, nreq, declared, client>>
    /\ UNCHANGED others

\* upload_chunk after save_chunk has returned: the video_path joins the
\* result when the status is "completed".
UploadResult(u, dir, total_chunks) ==
    LET upload_result == SaveChunkResult(dir, total_chunks)
    IN  IF upload_result.status = "completed"
        THEN [upload_result EXCEPT !.video_path = VideoPath(u)]
        ELSE upload_result

\* video_path = 'uploads/videos/video.mp4': one file for every upload.
VideosAfterUploadShared(vs, u, dir, total_chunks) ==
    IF SaveChunkResult(dir, total_chunks).status = "completed"
    THEN [v \in DOMAIN vs |-> AssembleVideo(vs[v], dir)]
    ELSE vs

\* if upload_result['status'] == 'completed': assemble_video(upload_id)
VideosAfterUpload(vs, u, dir, total_chunks) ==
    IF SaveChunkResult(dir, total_chunks).status = "completed"
    THEN [vs EXCEPT ![u] = AssembleVideo(@, dir)]
    ELSE vs

\* return ChunkedUploadResponse(upload_id, status, total_chunks)
UploadResponse(u, upload_result, total_chunks) ==
    [code |-> 200, upload_id |-> u, status |-> upload_result.status,
     total_chunks |-> total_chunks]

(* The rest of save_chunk and of upload_chunk, which has no await: count    *)
(* the chunk files, and assemble the video when the count is total_chunks.  *)
Check(r) ==
    /\ h[r].pc = "written"
    /\ LET u == h[r].upload_id
           total_chunks == Params(r).total_chunks
           upload_result == UploadResult(u, chunks[u], total_chunks)
       IN  /\ videos' = VideosAfterUpload(videos, u, chunks[u], total_chunks)
           /\ h' = [h EXCEPT ![r].pc = "done",
                             ![r].result = upload_result,
                             ![r].response = UploadResponse(u, upload_result, total_chunks)]
           /\ declared' = [declared EXCEPT ![u] = @ \cup {total_chunks}]
    /\ UNCHANGED <<chunks, uuids, nreq, client>>
    /\ UNCHANGED others

(* upload_chunk from the request to the response with no other handler      *)
(* running in between: what a client gets that sends its requests one after *)
(* the other and waits for each response.                                   *)
HandleUpload(r, sent) ==
    /\ nreq < MaxRequests
    /\ nreq' = nreq + 1
    /\ FreeSlots = Slots
    /\ \A q \in Slots : r <= q
    /\ LET p == UploadChunkParams(sent)
           fresh == p.upload_id = None
           u == IF fresh THEN Uuid4(uuids + 1) ELSE p.upload_id
           name == ChunkFilename(p.chunk_number)
           dir == WriteFromStart(OpenWb(chunks[u], name), name, sent.file)
           upload_result == UploadResult(u, dir, p.total_chunks)
       IN  /\ uuids' = IF fresh THEN uuids + 1 ELSE uuids
           /\ chunks' = [chunks EXCEPT ![u] = dir]
           /\ videos' = VideosAfterUpload(videos, u, dir, p.total_chunks)
           /\ h' = [h EXCEPT ![r] = [pc |-> "done", sent |-> sent, upload_id |-> u,
                                     result |-> upload_result,
                                     response |-> UploadResponse(u, upload_result,
                                                                 p.total_chunks)]]
           /\ declared' = [declared EXCEPT ![u] = @ \cup {p.total_chunks}]
    /\ UNCHANGED others

Next ==
    \/ \E r \in Slots, sent \in Requests : Start(r, sent)
    \/ \E r \in Slots : Write(r)
    \/ \E r \in Slots : Check(r)

Spec == Init /\ [][Next]_vars

\* A client starts on an empty server with a file and a chunk size.
ClientInit ==
    /\ chunks = [u \in UploadIds |-> << >>]
    /\ videos = [u \in UploadIds |-> NoFile]
    /\ uuids = 0
    /\ h = [r \in Slots |-> IdleHandler]
    /\ nreq = 0
    /\ declared = [u \in UploadIds |-> {}]
    /\ NothingElse
    /\ \E kind \in {"uploader", "test"}, file \in Files, chunk_size \in ChunkSizes :
          client = [kind |-> kind, file |-> file, chunk_size |-> chunk_size,
                    total_chunks |-> TotalChunks(Len(file), chunk_size),
                    chunk_number |-> 1,
                    \* upload_id = upload_id or str(uuid.uuid4()), on the client
                    upload_id |-> IF kind = "uploader" THEN ClientId(1) ELSE None,
                    pc |-> "loop", responses |-> <<>>]

(* One turn of the uploader's loop: read the next chunk, post it, and go on *)
(* when the response is a success (raise_for_status).                       *)
UploaderPost ==
    /\ client.kind = "uploader" /\ client.pc = "loop"
    /\ client.chunk_number <= client.total_chunks
    /\ HandleUpload(1, ClientRequest(client))
    /\ client' = [client EXCEPT !.chunk_number = @ + 1,
                                !.responses = Append(@, h'[1].response)]

(* One turn of the test's loop: the same, and the upload_id of the first    *)
(* response is the one sent from then on.                                   *)
TestPost ==
    /\ client.kind = "test" /\ client.pc = "loop"
    /\ client.chunk_number <= client.total_chunks
    /\ HandleUpload(1, ClientRequest(client))
    /\ client' = [client EXCEPT !.chunk_number = @ + 1,
                                !.upload_id = IF @ = None THEN h'[1].response.upload_id
                                              ELSE @,
                                !.responses = Append(@, h'[1].response)]

\* The loop is over: return upload_id.
ClientReturn ==
    /\ client.pc = "loop"
    /\ client.chunk_number > client.total_chunks
    /\ client' = [client EXCEPT !.pc = "returned"]
    /\ UNCHANGED <<chunks, videos, uuids, h, nreq, declared>>
    /\ UNCHANGED others

ClientNext == UploaderPost \/ TestPost \/ ClientReturn

ClientSpec == ClientInit /\ [][ClientNext]_vars

\* Requests that arrive one at a time, each after the response to the last.
SeqNext == \E sent \in SeqRequests : HandleUpload(1, sent) /\ UNCHANGED client

SeqSpec == Init /\ [][SeqNext]_vars

\* ------------------------------------------------------------- failures
(* raise HTTPException(status_code=500, detail=...): the detail is the text *)
(* of the exception, of which the model keeps the place it was raised at.   *)
ServerError(detail) == [code |-> 500, detail |-> detail]

(* upload_chunk when save_chunk raises after it has opened the chunk file:  *)
(* file.read() raises (nothing is written) or chunk_file.write raises when  *)
(* `written` bytes of the body are in the file.  The except clause of       *)
(* save_chunk turns the exception into a 500 and removes nothing.           *)
SaveChunkFails(r, sent, written) ==
    /\ nreq < MaxRequests
    /\ nreq' = nreq + 1
    /\ FreeSlots = Slots
    /\ \A q \in Slots : r <= q
    /\ written \in 0..(Len(sent.file) - 1)
    /\ LET p == UploadChunkParams(sent)
           fresh == p.upload_id = None
           u == IF fresh THEN Uuid4(uuids + 1) ELSE p.upload_id
           name == ChunkFilename(p.chunk_number)
           dir == WriteFromStart(OpenWb(chunks[u], name), name,
                                 SubSeq(sent.file, 1, written))
       IN  /\ uuids' = IF fresh THEN uuids + 1 ELSE uuids
           /\ chunks' = [chunks EXCEPT ![u] = dir]
           /\ h' = [h EXCEPT ![r] = [pc |-> "done", sent |-> sent, upload_id |-> u,
                                     result |-> NoResult,
                                     response |-> ServerError("save_chunk")]]
    /\ UNCHANGED <<videos, declared>>
    /\ UNCHANGED others

(* upload_chunk when save_chunk says "completed" and assemble_video raises  *)
(* after it has opened the video with 'wb': opening or reading the chunk    *)
(* at place `failing` of the sorted list raises when the chunks before it   *)
(* have been written.  Nothing catches the exception before upload_chunk,   *)
(* which answers 500; the with statement closes the video and leaves it.    *)
AssembleVideoFails(r, sent, failing) ==
    /\ nreq < MaxRequests
    /\ nreq' = nreq + 1
    /\ FreeSlots = Slots
    /\ \A q \in Slots : r <= q
    /\ LET p == UploadChunkParams(sent)
           fresh == p.upload_id = None
           u == IF fresh THEN Uuid4(uuids + 1) ELSE p.upload_id
           name == ChunkFilename(p.chunk_number)
           dir == WriteFromStart(OpenWb(chunks[u], name), name, sent.file)
           sorted == SortedByKey(ListChunks(dir))
       IN  /\ SaveChunkResult(dir, p.total_chunks).status = "completed"
           /\ failing \in 1..Len(sorted)
           /\ uuids' = IF fresh THEN uuids + 1 ELSE uuids
           /\ chunks' = [chunks EXCEPT ![u] = dir]
           /\ videos' = [videos EXCEPT ![u] =
                  [exists |-> TRUE,
                   content |-> ConcatFiles(dir, SubSeq(sorted, 1, failing - 1))]]
           /\ h' = [h EXCEPT ![r] = [pc |-> "done", sent |-> sent, upload_id |-> u,
                                     result |-> SaveChunkResult(dir, p.total_chunks),
                                     response |-> ServerError("assemble_video")]]
    /\ UNCHANGED declared
    /\ UNCHANGED others

\* ------------------------------------------------------------- a failing POST
\* requests.post gave no response within timeout=30: requests.Timeout.
TimedOut == [code |-> 0, detail |-> "requests.Timeout"]

ContinueWithNextChunk(c, response) ==
    [c EXCEPT !.chunk_number = @ + 1, !.responses = Append(@, response)]

\* except requests.RequestException as e: raise Exception(...)
RaiseToCaller(c, response) ==
    [c EXCEPT !.pc = "raised", !.responses = Append(@, response)]

(* A turn of the uploader's loop whose POST is answered 500:                *)
(* response.raise_for_status() raises HTTPError, a RequestException.        *)
UploaderPostError ==
    /\ client.kind = "uploader" /\ client.pc = "loop"
    /\ client.chunk_number <= client.total_chunks
    /\ \/ \E written \in 0..MaxChunkSize :
             SaveChunkFails(1, ClientRequest(client), written)
       \/ \E failing \in 1..(MaxChunk + 1) :
             AssembleVideoFails(1, ClientRequest(client), failing)
    /\ client' = RaiseToCaller(client, h'[1].response)

(* A turn of the uploader's loop whose POST times out: the request has not  *)
(* reached the server, or the server has handled it and its response came   *)
(* too late.                                                                *)
UploaderPostTimeout ==
    /\ client.kind = "uploader" /\ client.pc = "loop"
    /\ client.chunk_number <= client.total_chunks
    /\ \/ UNCHANGED <<chunks, videos, uuids, h, nreq, declared>> /\ UNCHANGED others
       \/ HandleUpload(1, ClientRequest(client))
    /\ client' = RaiseToCaller(client, TimedOut)

ClientFailNext ==
    \/ UploaderPost
    \/ TestPost
    \/ ClientReturn
    \/ UploaderPostError
    \/ UploaderPostTimeout

ClientFailSpec == ClientInit /\ [][ClientFailNext]_vars

\* Requests that arrive one at a time, some of which fail on the server.
FailNext ==
    \/ \E sent \in Requests : HandleUpload(1, sent) /\ UNCHANGED client
    \/ \E sent \in SeqRequests, written \in 0..MaxPayload :
          SaveChunkFails(1, sent, written) /\ UNCHANGED client
    \/ \E sent \in Requests, failing \in 1..(MaxChunk + 1) :
          AssembleVideoFails(1, sent, failing) /\ UNCHANGED client

FailSpec == Init /\ [][FailNext]_vars

\* ------------------------------------------------------------- processing
(* The handler of POST /video/process: it builds the path of the video from *)
(* the upload_id, adds the job to the background tasks and answers.         *)
ProcessRequest(upload_id, processing_options) ==
    /\ nreq < MaxRequests
    /\ nreq' = nreq + 1
    /\ tasks' = Append(tasks, AddTask(VideoPath(upload_id), processing_options))
    /\ replies' = Append(replies, ProcessingStarted(upload_id))
    /\ UNCHANGED <<chunks, videos, uuids, h, declared, client, processed, checked, ai,
                   config>>

(* A background task runs, after the response of its request has been sent: *)
(* process_video has no await, so it runs from start to end in one stretch. *)
RunTask(i) ==
    /\ tasks[i].state = "scheduled"
    /\ LET job == ProcessVideo(tasks[i].video_path, tasks[i].processing_options)
       IN  /\ tasks' = [tasks EXCEPT ![i].state = "finished",
                                     ![i].raised = job.raised,
                                     ![i].returned = job.returned]
           /\ processed' = IF job.saved
                           THEN [processed EXCEPT ![tasks[i].video_path.name] = job.record]
                           ELSE processed
    /\ UNCHANGED <<chunks, videos, uuids, h, nreq, declared, client, replies, checked, ai, config>>

ProcNext ==
    \/ \E sent \in Requests : HandleUpload(1, sent) /\ UNCHANGED client
    \/ \E upload_id \in KnownIds, processing_options \in ProcessingOptions :
          ProcessRequest(upload_id, processing_options)
    \/ \E i \in 1..Len(tasks) : RunTask(i)

ProcSpec == Init /\ [][ProcNext]_vars

\* ------------------------------------------------------------- check_upload
(* The handler of GET /check_upload/{upload_id}; it has no await.  The      *)
(* upload_id is any string of the path, known to the server or not.         *)
CheckUploadStatus(upload_id) ==
    /\ nreq < MaxRequests
    /\ nreq' = nreq + 1
    /\ checked' = [upload_id |-> upload_id,
                   response |-> CheckUploadStatusResponse(upload_id, chunks[upload_id])]
    /\ UNCHANGED <<chunks, videos, uuids, h, declared, client, tasks, replies,
                   processed, ai, config>>

StatusNext ==
    \/ \E r \in Slots, sent \in Requests : Start(r, sent)
    \/ \E r \in Slots : Write(r)
    \/ \E r \in Slots : Check(r)
    \/ \E upload_id \in UploadIds : CheckUploadStatus(upload_id)

StatusSpec == Init /\ [][StatusNext]_vars

\* ------------------------------------------------------------- process
\* GeminiProcessor.process(text_data) is called: enhanced_data = []
AiInit ==
    /\ chunks = [u \in UploadIds |-> << >>]
    /\ videos = [u \in UploadIds |-> NoFile]
    /\ uuids = 0
    /\ h = [r \in Slots |-> IdleHandler]
    /\ nreq = 0
    /\ declared = [u \in UploadIds |-> {}]
    /\ client = NoClient
    /\ tasks = <<>>
    /\ replies = <<>>
    /\ processed = [u \in UploadIds |-> NoRecord]
    /\ checked = NoCheck
    /\ config = NoConfig
    /\ \E text_data \in TextData :
          ai = [pc |-> "for", text_data |-> text_data, entry |-> 1,
                text_chunks |-> <<>>, chunk_insights |-> <<>>,
                enhanced_data |-> <<>>, calls |-> <<>>]

\* for entry in text_data: text_chunks = self._chunk_text(entry['text'])
ChunkEntry ==
    /\ ai.pc = "for"
    /\ ai.entry <= Len(ai.text_data)
    /\ ai' = [ai EXCEPT !.pc = "chunks",
                        !.text_chunks = ChunkText(ai.text_data[ai.entry].text,
                                                  DefaultMaxTokens),
                        !.chunk_insights = <<>>]
    /\ UNCHANGED <<chunks, videos, uuids, h, nreq, declared, client, tasks, replies,
                   processed, checked, config>>

(* The next _process_chunk(chunk) of the list comprehension.  When it      *)
(* raises, the except clause of process appends the entry with no insights  *)
(* and an error, and the loop goes on with the next entry.                  *)
ProcessNextChunk(script) ==
    /\ ai.pc = "chunks"
    /\ Len(ai.chunk_insights) < Len(ai.text_chunks)
    /\ LET result == ProcessChunk(script)
           call == [entry |-> ai.entry, chunk |-> Len(ai.chunk_insights) + 1,
                    script |-> script, attempts |-> result.attempts,
                    raised |-> result.raised, insight |-> result.insight]
       IN  IF result.raised
           THEN ai' = [ai EXCEPT !.pc = "for",
                                 !.entry = @ + 1,
                                 !.calls = Append(@, call),
                                 !.enhanced_data =
                                     Append(@, [original_text |-> ai.text_data[ai.entry].text,
                                                insights |-> <<>>, error |-> TRUE])]
           ELSE ai' = [ai EXCEPT !.calls = Append(@, call),
                                 !.chunk_insights = Append(@, result.insight)]
    /\ UNCHANGED <<chunks, videos, uuids, h, nreq, declared, client, tasks, replies,
                   processed, checked, config>>

\* enhanced_data.append(enhanced_entry), with the insights of all the chunks
AppendEntry ==
    /\ ai.pc = "chunks"
    /\ Len(ai.chunk_insights) = Len(ai.text_chunks)
    /\ ai' = [ai EXCEPT !.pc = "for",
                        !.entry = @ + 1,
                        !.enhanced_data =
                            Append(@, [original_text |-> ai.text_data[ai.entry].text,
                                       insights |-> ai.chunk_insights, error |-> FALSE])]
    /\ UNCHANGED <<chunks, videos, uuids, h, nreq, declared, client, tasks, replies,
                   processed, checked, config>>

\* return enhanced_data
ReturnEnhancedData ==
    /\ ai.pc = "for"
    /\ ai.entry > Len(ai.text_data)
    /\ ai' = [ai EXCEPT !.pc = "returned"]
    /\ UNCHANGED <<chunks, videos, uuids, h, nreq, declared, client, tasks, replies,
                   processed, checked, config>>

AiNext ==
    \/ ChunkEntry
    \/ \E script \in Scripts : ProcessNextChunk(script)
    \/ AppendEntry
    \/ ReturnEnhancedData

AiSpec == AiInit /\ [][AiNext]_vars

\* ------------------------------------------------------------- ConfigManager()
\* The module is imported: _instance = None, and the files are what they are.
ConfigInit ==
    /\ chunks = [u \in UploadIds |-> << >>]
    /\ videos = [u \in UploadIds |-> NoFile]
    /\ uuids = 0
    /\ h = [r \in Slots |-> IdleHandler]
    /\ nreq = 0
    /\ declared = [u \in UploadIds |-> {}]
    /\ client = NoClient
    /\ tasks = <<>>
    /\ replies = <<>>
    /\ processed = [u \in UploadIds |-> NoRecord]
    /\ checked = NoCheck
    /\ ai = NoAi
    /\ \E app \in YamlFiles, ai_ \in YamlFiles :
          config = [files |-> [app |-> app, ai |-> ai_],
                    cls_instance |-> NoInstance, calls |-> <<>>]

(* ConfigManager(): __new__ makes and caches the instance when none is      *)
(* cached, calls _load_config on it, and returns the cached instance.  The  *)
(* lookup of a name that is not a method raises AttributeError out of       *)
(* __new__, after the assignment to cls._instance.                          *)
ConfigManagerNew ==
    /\ Len(config.calls) < MaxCalls
    /\ LET call(outcome) == [call |-> "ConfigManager", arguments |-> NoArguments,
                             outcome |-> outcome, value |-> 0]
       IN  IF config.cls_instance.made
           THEN config' = [config EXCEPT !.calls = Append(@, call("returned"))]
           ELSE IF "_load_config" \in Methods
           THEN config' = [config EXCEPT
                              !.cls_instance = LoadConfigs(NewInstance, config.files),
                              !.calls = Append(@, call("returned"))]
           ELSE config' = [config EXCEPT
                              !.cls_instance = NewInstance,
                              !.calls = Append(@, call("AttributeError"))]
    /\ UNCHANGED <<chunks, videos, uuids, h, nreq, declared, client, tasks, replies,
                   processed, checked, ai>>

(* get_config on the instance a call of ConfigManager() has returned:       *)
(* reading self.app_config or self.ai_config raises AttributeError when     *)
(* the attribute was never set.                                             *)
GetConfig(config_type, key, default) ==
    /\ Len(config.calls) < MaxCalls
    /\ \E i \in 1..Len(config.calls) :
          config.calls[i].call = "ConfigManager" /\ config.calls[i].outcome = "returned"
    /\ LET self == config.cls_instance
           arguments == [config_type |-> config_type, key |-> key, default |-> default]
           set == {"app_config", "ai_config"} \subseteq self.attributes
       IN  config' = [config EXCEPT !.calls = Append(@,
               [call |-> "get_config", arguments |-> arguments,
                outcome |-> IF set THEN "returned" ELSE "AttributeError",
                value |-> IF set THEN GetConfigValue(self, config_type, key, default)
                          ELSE 0])]
    /\ UNCHANGED <<chunks, videos, uuids, h, nreq, declared, client, tasks, replies,
                   processed, checked, ai>>

ConfigNext ==
    \/ ConfigManagerNew
    \/ \E config_type \in ConfigTypes, key \in AskedKeys : GetConfig(config_type, key, 0)

ConfigSpec == ConfigInit /\ [][ConfigNext]_vars

\* ------------------------------------------------------------- _chunk_text
(* _chunk_text on its own: the words of a text told apart by their spelling *)
(* as well as by their number of tokens, and max_tokens small, or the       *)
(* default.                                                                 *)
SpelledWords == [tokens : TokenCounts, spelling : 1..MaxSpellings]
SpelledTexts == UNION {[1..n -> SpelledWords] : n \in 0..MaxTextWords}
MaxTokensArguments == (1..MaxMaxTokens) \cup {DefaultMaxTokens}

\* self._chunk_text(text, max_tokens) is called
ChunkTextInit ==
    /\ chunks = [u \in UploadIds |-> << >>]
    /\ videos = [u \in UploadIds |-> NoFile]
    /\ uuids = 0
    /\ h = [r \in Slots |-> IdleHandler]
    /\ nreq = 0
    /\ declared = [u \in UploadIds |-> {}]
    /\ client = NoClient
    /\ tasks = <<>>
    /\ replies = <<>>
    /\ processed = [u \in UploadIds |-> NoRecord]
    /\ checked = NoCheck
    /\ config = NoConfig
    /\ \E words \in SpelledTexts, max_tokens \in MaxTokensArguments :
          ai = [pc |-> "_chunk_text", words |-> words, max_tokens |-> max_tokens,
                returned |-> <<>>]

\* return chunks
ChunkTextReturns ==
    /\ ai.pc = "_chunk_text"
    /\ ai' = [ai EXCEPT !.pc = "chunked",
                        !.returned = ChunkText(ai.words, ai.max_tokens)]
    /\ UNCHANGED <<chunks, videos, uuids, h, nreq, declared, client, tasks, replies,
                   processed, checked, config>>

ChunkTextNext == ChunkTextReturns

ChunkTextSpec == ChunkTextInit /\ [][ChunkTextNext]_vars

\* ------------------------------------------------------------- claims
\* The handlers of upload id u that have not returned yet.
InFlight(u) == {r \in Slots : h[r].pc \in {"opened", "written"} /\ h[r].upload_id = u}

\* The chunk numbers that have a file in the directory.
StoredNumbers(dir) == {ChunkKey(n) : n \in DOMAIN dir}

\* Fragments 1..n of a directory, one after the other.
RECURSIVE FragmentsInOrder(_, _)
FragmentsInOrder(dir, n) ==
    IF n = 0 THEN <<>>
    ELSE FragmentsInOrder(dir, n - 1) \o dir[ChunkFilename(n)]

\* Handler r returns from save_chunk in this step.
Returns(r) == h[r].pc = "written" /\ h'[r].pc = "done"

(* C1: when fragments 1..N of an upload have arrived, in whatever order and *)
(* however their handlers interleaved, all declaring total_chunks = N, and  *)
(* every handler has returned, the video of the upload is the fragments'    *)
(* bytes in ascending chunk_number order.                                   *)
C1_OrderIndependence ==
    \A u \in UploadIds, N \in Totals :
        (/\ InFlight(u) = {}
         /\ declared[u] = {N}
         /\ StoredNumbers(chunks[u]) = 1..N)
        => /\ videos[u].exists
           /\ videos[u].content = FragmentsInOrder(chunks[u], N)

\* Fragment 2 arrived and returned "partial" before fragment 1 completed the
\* upload, and the two fragments differ.
C1_Witness ==
    \E r \in Slots, q \in Slots, u \in UploadIds :
        /\ InFlight(u) = {} /\ declared[u] = {2} /\ StoredNumbers(chunks[u]) = 1..2
        /\ h[r].pc = "done" /\ h[r].upload_id = u /\ Params(r).chunk_number = 1
        /\ h[r].result.status = "completed"
        /\ h[q].pc = "done" /\ h[q].upload_id = u /\ Params(q).chunk_number = 2
        /\ h[q].result.status = "partial"
        /\ chunks[u][ChunkFilename(1)] # chunks[u][ChunkFilename(2)]
        /\ videos[u].exists

(* C2: when save_chunk returns, its status is "completed" exactly when the  *)
(* number of distinct chunk numbers stored for the upload at that moment is *)
(* total_chunks, and chunks_uploaded is that number.                        *)
C2_CompletionExactness ==
    [][\A r \in Slots :
          Returns(r) =>
             LET stored == Cardinality(StoredNumbers(chunks'[h[r].upload_id]))
             IN  /\ h'[r].result.chunks_uploaded = stored
                 /\ h'[r].result.status \in {"completed", "partial"}
                 /\ h'[r].result.status = "completed"
                        <=> stored = Params(r).total_chunks]_vars

\* A save_chunk that found total_chunks - 1 fragments stored and said "partial".
C2_Witness ==
    \E r \in Slots :
        /\ h[r].pc = "done"
        /\ Params(r).total_chunks = 2
        /\ h[r].result.chunks_uploaded = 1
        /\ h[r].result.status = "partial"

(* C3: once a fragment of an upload has been accepted with total_chunks = T *)
(* no fragment of the same upload is accepted with another total_chunks.    *)
C3_InconsistentTotalRejected ==
    \A u \in UploadIds : Cardinality(declared[u]) <= 1

(* C4: a video is assembled for an upload declared with N fragments only    *)
(* when the stored chunk numbers are exactly 1..N; stated for uploads all   *)
(* of whose stored chunk numbers are valid (at least 1).                    *)
C4_MissingFragmentBlocksAssembly ==
    [][\A r \in Slots :
          LET stored == StoredNumbers(chunks[h[r].upload_id])
          IN  (/\ Returns(r)
               /\ videos'[h[r].upload_id] # videos[h[r].upload_id]
               /\ \A k \in stored : k >= 1)
              => stored = 1..Params(r).total_chunks]_vars

(* C6: when the test's client has posted chunks 1..N in order, with         *)
(* chunk_number and total_chunks = N as form fields and, from the second    *)
(* chunk on, the upload_id of the first response, every response carries    *)
(* that upload_id, responses 1..N-1 say "partial" and response N says       *)
(* "completed".                                                             *)
C6_InOrderStatusSequence ==
    (client.kind = "test" /\ client.pc = "returned")
    => \A i \in 1..client.total_chunks :
          /\ client.responses[i].code = 200
          /\ client.responses[i].upload_id = client.responses[1].upload_id
          /\ client.responses[i].status =
                 IF i = client.total_chunks THEN "completed" ELSE "partial"

(* C7: when upload_video_in_chunks has returned upload id U for a file that *)
(* is not empty, every request having succeeded, the server holds one       *)
(* video, uploads/videos/U.mp4, its bytes are the file's, and the fragments *)
(* of the call are stored under U with the chunk numbers the client sent.   *)
C7_EndToEndClientUpload ==
    (client.kind = "uploader" /\ client.pc = "returned" /\ client.total_chunks >= 1)
    => LET U == client.upload_id
       IN  /\ videos[U].exists
           /\ videos[U].content = client.file
           /\ \A u \in UploadIds \ {U} : ~videos[u].exists /\ DOMAIN chunks[u] = {}
           /\ StoredNumbers(chunks[U]) = 1..client.total_chunks

C9_IdempotentAssembly ==
    [][\A r \in Slots :
          LET u == h[r].upload_id
              N == Params(r).total_chunks
          IN  (/\ Returns(r)
               /\ h'[r].result.status = "completed"
               /\ videos[u].exists
               /\ StoredNumbers(chunks[u]) = 1..N)
              => /\ h'[r].response.code = 200
                 /\ h'[r].result.video_path.name = u
                 /\ \A q \in Slots :
                       (h[q].pc = "done" /\ h[q].upload_id = u
                            /\ h[q].result.status = "completed")
                       => h[q].result.video_path = h'[r].result.video_path
                 /\ videos'[u].exists
                 /\ videos'[u].content = FragmentsInOrder(chunks[u], N)]_vars

\* Two handlers of one upload have both returned "completed" and the video
\* holds the two fragments once.
C9_Witness ==
    \E r \in Slots, q \in Slots, u \in UploadIds :
        /\ r # q
        /\ h[r].pc = "done" /\ h[r].upload_id = u /\ h[r].result.status = "completed"
        /\ h[q].pc = "done" /\ h[q].upload_id = u /\ h[q].result.status = "completed"
        /\ Params(r).total_chunks = 2 /\ Params(q).total_chunks = 2
        /\ StoredNumbers(chunks[u]) = 1..2
        /\ Len(videos[u].content) = 2

(* C10: with handlers of one upload running concurrently on distinct chunk  *)
(* numbers 1..N, a handler returns "completed" (and the video is written)   *)
(* only when no fragment of the upload is open and not yet written.         *)
C10_NoCompletionOnHalfWritten ==
    [][\A r \in Slots :
          LET u == h[r].upload_id
              N == Params(r).total_chunks
              running == InFlight(u)
          IN  (/\ Returns(r)
               /\ h'[r].result.status = "completed"
               /\ \A q \in running : /\ Params(q).total_chunks = N
                                      /\ Params(q).chunk_number \in 1..N
               /\ \A q1 \in running, q2 \in running :
                     q1 # q2 => Params(q1).chunk_number # Params(q2).chunk_number)
              => /\ \A q \in running : h[q].pc # "opened"
                 /\ \A k \in 1..N : ChunkFilename(k) \in DOMAIN chunks[u]
                 /\ videos'[u].content = FragmentsInOrder(chunks[u], N)
                 /\ \A k \in 1..N : chunks[u][ChunkFilename(k)] # <<>>]_vars

(* C5: a POST /video/upload whose chunk_number is below 1 is answered with  *)
(* a status other than 200, stores no fragment and completes no upload.     *)
C5_InvalidChunkNumberRejected ==
    \A r \in Slots :
        (h[r].pc = "done" /\ h[r].sent.chunk_number < 1)
        => /\ h[r].response.code # 200
           /\ h[r].result.status # "completed"
           /\ h[r].sent.chunk_number \notin StoredNumbers(chunks[h[r].upload_id])

(* C11: the video of an upload is written at most once: a handler returns   *)
(* "completed" and runs the assembler only for an upload that has no video  *)
(* yet, so that a video that exists is neither re-created nor overwritten;  *)
(* stated for uploads that hold fragments 1..N and declared no other total. *)
C11_AtMostOnceArtifact ==
    [][\A r \in Slots :
          (/\ Returns(r) /\ h'[r].result.status = "completed"
           /\ StoredNumbers(chunks[h[r].upload_id]) = 1..Params(r).total_chunks
           /\ declared[h[r].upload_id] \subseteq {Params(r).total_chunks})
          => /\ ~videos[h[r].upload_id].exists
             /\ \A q \in Slots \ {r} :
                   (h[q].pc = "done" /\ h[q].upload_id = h[r].upload_id)
                   => h[q].result.status # "completed"]_vars

(* C16: the response to the upload that completes the set carries the path  *)
(* of the assembled video, and a response that says "partial" carries      *)
(* none; stated for requests whose chunk_number is in 1..total_chunks.      *)
C16_CompletingResponseCarriesPath ==
    \A r \in Slots :
        (h[r].pc = "done" /\ Params(r).chunk_number \in 1..Params(r).total_chunks)
        => /\ h[r].response.status = "completed"
                 => "video_path" \in DOMAIN h[r].response
           /\ h[r].response.status = "partial"
                 => "video_path" \notin DOMAIN h[r].response

(* C17: when a handler has assembled the video of an upload, no fragment of *)
(* that upload is left in uploads/chunks; stated for uploads that hold     *)
(* fragments 1..N.                                                          *)
C17_FragmentsRemovedAfterAssembly ==
    [][\A r \in Slots :
          (/\ Returns(r) /\ h'[r].result.status = "completed"
           /\ StoredNumbers(chunks[h[r].upload_id]) = 1..Params(r).total_chunks)
          => ListChunks(chunks'[h[r].upload_id]) = {}]_vars

(* C19: a step of a handler of upload A (opening or writing a fragment,     *)
(* counting, assembling) leaves every other upload B as it was: its         *)
(* fragments, the status a count of them gives for any total, its video,    *)
(* and the handlers of B, whether running or returned.                      *)
C19_UploadsIsolated ==
    [][\A r \in Slots :
          h'[r] # h[r]
          => LET A == h'[r].upload_id
             IN  \A B \in UploadIds \ {A} :
                    /\ chunks'[B] = chunks[B]
                    /\ videos'[B] = videos[B]
                    /\ declared'[B] = declared[B]
                    /\ \A N \in Totals :
                          SaveChunkResult(chunks'[B], N) = SaveChunkResult(chunks[B], N)
                    /\ \A q \in Slots \ {r} : h[q].upload_id = B => h'[q] = h[q]]_vars

\* Upload A was assembled while a fragment of upload B was open and not yet
\* written; B's fragment has since been written and B is still partial.
C19_Witness ==
    \E r \in Slots, q \in Slots :
        /\ h[r].upload_id # h[q].upload_id
        /\ h[r].pc = "done" /\ h[r].result.status = "completed"
        /\ videos[h[r].upload_id].exists
        /\ h[q].pc = "written" /\ Params(q).total_chunks = 2
        /\ ~videos[h[q].upload_id].exists
        /\ chunks[h[q].upload_id][ChunkFilename(Params(q).chunk_number)] = h[q].sent.file

(* C12: POST /video/process answers 200 {status: "processing_started",      *)
(* upload_id} with the job of the request scheduled and not run, nothing    *)
(* processed by the request itself; and no later step, the failure of the   *)
(* job included, changes a response that has been given.                    *)
C12_NonBlockingDispatch ==
    [][/\ Len(replies') = Len(replies) + 1
          => LET n == Len(replies')
             IN  /\ replies'[n].code = 200
                 /\ replies'[n].status = "processing_started"
                 /\ Len(tasks') = n
                 /\ tasks'[n].video_path = VideoPath(replies'[n].upload_id)
                 /\ tasks'[n].state = "scheduled"
                 /\ \A i \in 1..Len(tasks) : tasks'[i] = tasks[i]
                 /\ processed' = processed
       /\ \A i \in 1..Len(replies) : replies'[i] = replies[i]]_vars

\* A job has run and failed after its request was answered "processing_started".
C12_Witness ==
    \E i \in 1..Len(replies) :
        /\ replies[i].code = 200 /\ replies[i].status = "processing_started"
        /\ tasks[i].state = "finished"
        /\ tasks[i].returned.error # ""
        /\ tasks[i].video_path = VideoPath(replies[i].upload_id)

(* C13: a POST /video/process for an upload_id whose video was never        *)
(* assembled is answered with a status other than 200 and schedules no job. *)
C13_UnknownUploadRejected ==
    [][Len(replies') = Len(replies) + 1
          => LET reply == replies'[Len(replies')]
             IN  ~videos[reply.upload_id].exists
                 => (reply.code # 200 /\ tasks' = tasks)]_vars

(* C20: a background job that failed raised nothing to its scheduler and    *)
(* left a result record describing the error under                          *)
(* uploads/processed/<artifact>_results.json; stated for jobs whose video   *)
(* exists.                                                                  *)
C20_BackgroundFailureRecorded ==
    \A i \in 1..Len(tasks) :
        (/\ tasks[i].state = "finished" /\ tasks[i].returned.error # ""
         /\ videos[tasks[i].video_path.name].exists)
        => /\ ~tasks[i].raised
           /\ processed[tasks[i].video_path.name].exists
           /\ processed[tasks[i].video_path.name].error # ""

(* C18: GET /check_upload/{upload_id} answers "not_found" exactly when the  *)
(* upload has no fragment directory, and otherwise "in_progress" with       *)
(* chunks_uploaded the number of distinct chunk numbers stored for the      *)
(* upload at that moment; the query changes nothing that is stored.         *)
C18_UploadStatusQuery ==
    [][(nreq' = nreq + 1 /\ h' = h)
          => LET u == checked'.upload_id
                 response == checked'.response
             IN  /\ response.status \in {"not_found", "in_progress"}
                 /\ response.status = "not_found" <=> DOMAIN chunks[u] = {}
                 /\ response.status = "in_progress"
                       => /\ response.upload_id = u
                          /\ response.chunks_uploaded =
                                 Cardinality(StoredNumbers(chunks[u]))
                 /\ chunks' = chunks /\ videos' = videos /\ processed' = processed
                 /\ tasks' = tasks /\ uuids' = uuids]_vars

\* The status of an upload was asked while one of its two fragments was open
\* and not yet written: the answer counts it.
C18_Witness ==
    /\ checked.response.status = "in_progress"
    /\ checked.response.chunks_uploaded = 2
    /\ \E r \in Slots :
          /\ h[r].pc = "opened" /\ h[r].upload_id = checked.upload_id
          /\ chunks[h[r].upload_id][ChunkFilename(Params(r).chunk_number)] = <<>>

\* The calls of _process_chunk made so far for chunk c of entry e.
CallsOf(e, c) == {i \in 1..Len(ai.calls) : ai.calls[i].entry = e /\ ai.calls[i].chunk = c}

(* C14: when the AI call for a chunk fails on the first two attempts and    *)
(* succeeds on the third, _process_chunk makes exactly 3 attempts and the   *)
(* insight of the chunk is the one the model gave, not the default one.     *)
C14_RetryThenSuccess ==
    ai.pc # "none"
    => \A i \in 1..Len(ai.calls) :
          ai.calls[i].script = <<"raise", "raise", "ok">>
          => /\ ai.calls[i].attempts = 3
             /\ ai.calls[i].insight = ParsedInsight

(* C15: when the AI call fails on every attempt for a chunk, at most 3      *)
(* attempts are made and the chunk's insight is the default one (sentiment  *)
(* "Unknown", no keywords); nothing is raised, the chunks and entries after *)
(* it are processed, and process returns one result per entry, each with    *)
(* one insight per chunk of its text.                                       *)
C15_RetryExhaustionDegrades ==
    ai.pc # "none"
    => /\ \A i \in 1..Len(ai.calls) :
             ai.calls[i].script = [a \in 1..StopAfterAttempt |-> "raise"]
             => /\ ai.calls[i].attempts <= 3
                /\ ~ai.calls[i].raised
                /\ ai.calls[i].insight.sentiment = "Unknown"
                /\ ai.calls[i].insight.keywords = <<>>
       /\ ai.pc = "returned"
             => /\ Len(ai.enhanced_data) = Len(ai.text_data)
                /\ \A e \in 1..Len(ai.text_data) :
                      LET text_chunks == ChunkText(ai.text_data[e].text, DefaultMaxTokens)
                      IN  /\ ~ai.enhanced_data[e].error
                          /\ Len(ai.enhanced_data[e].insights) = Len(text_chunks)
                          /\ \A c \in 1..Len(text_chunks) :
                                /\ Cardinality(CallsOf(e, c)) = 1
                                /\ \A i \in CallsOf(e, c) :
                                      ai.enhanced_data[e].insights[c] = ai.calls[i].insight

\* process has returned; the AI failed on every attempt for the first chunk
\* of a text of two chunks and answered for the second, and an entry follows.
C15_Witness ==
    /\ ai.pc = "returned"
    /\ Len(ai.text_data) = 2
    /\ Len(ai.enhanced_data[1].insights) = 2
    /\ ai.calls[1].script = [a \in 1..StopAfterAttempt |-> "raise"]
    /\ ai.enhanced_data[1].insights[1] = DefaultInsight
    /\ ai.enhanced_data[1].insights[2] = ParsedInsight
    /\ Len(ai.enhanced_data[2].insights) >= 1

(* C24: once a response for an upload has said "completed", no later        *)
(* response to a fragment of the same upload, declaring the same            *)
(* total_chunks, says "partial"; stated for uploads all of whose stored     *)
(* chunk numbers are at least 1.                                            *)
C24_CompletionMonotonic ==
    [][\A r \in Slots, q \in Slots :
          (/\ Returns(r)
           /\ q # r /\ h[q].pc = "done" /\ h[q].upload_id = h[r].upload_id
           /\ h[q].result.status = "completed"
           /\ Params(q).total_chunks = Params(r).total_chunks
           /\ declared[h[r].upload_id] = {Params(r).total_chunks}
           /\ \A k \in StoredNumbers(chunks[h[r].upload_id]) : k >= 1)
          => h'[r].result.status # "partial"]_vars

(* C25: once the video of an upload has been assembled, no later fragment   *)
(* upload for that upload changes its content; stated for a fragment k in   *)
(* 1..N sent alone to an upload that holds fragments 1..N and declared N.   *)
C25_ArtifactImmutable ==
    [][\A r \in Slots :
          LET u == h[r].upload_id
              N == Params(r).total_chunks
          IN  (/\ Returns(r)
               /\ videos[u].exists
               /\ InFlight(u) = {r}
               /\ declared[u] = {N}
               /\ StoredNumbers(chunks[u]) = 1..N)
              => videos'[u].content = videos[u].content]_vars

(* C27: when the last running handler of an upload returns, fragments 1..N  *)
(* being stored and N the only total declared, some handler of the upload   *)
(* has returned "completed" (this one, or an earlier one that assembled the *)
(* video) and the video exists: no interleaving lets them all say "partial".*)
C27_CompletionDetected ==
    [][\A r \in Slots :
          LET u == h[r].upload_id
              N == Params(r).total_chunks
          IN  (/\ Returns(r)
               /\ InFlight(u) = {r}
               /\ declared'[u] = {N}
               /\ StoredNumbers(chunks[u]) = 1..N)
              => /\ h'[r].result.status = "completed" \/ videos[u].exists
                 /\ videos'[u].exists]_vars

\* The handlers of fragments 1 and 2 of an upload ran at the same time; the
\* handler of fragment 1 counted both files and said "completed" while
\* fragment 2 was being written, and the handler of fragment 2 has returned.
C27_Witness ==
    \E r \in Slots, q \in Slots, u \in UploadIds :
        /\ r # q /\ nreq = 2
        /\ h[r].pc = "done" /\ h[r].upload_id = u /\ Params(r).chunk_number = 1
        /\ h[q].pc = "done" /\ h[q].upload_id = u /\ Params(q).chunk_number = 2
        /\ Params(r).total_chunks = 2 /\ Params(q).total_chunks = 2
        /\ h[r].result.status = "completed" /\ h[r].result.chunks_uploaded = 2
        /\ h[q].result.status = "completed"
        /\ videos[u].exists /\ Len(videos[u].content) = 2

(* C21: when assemble_video fails after it has opened the video of an       *)
(* upload that had none, no video of that upload exists afterwards; stated  *)
(* for requests whose chunk_number is at least 1.                           *)
C21_AllOrNothingAssembly ==
    [][(/\ nreq' = nreq + 1
        /\ h'[1].response.code = 500
        /\ h'[1].response.detail = "assemble_video"
        /\ UploadChunkParams(h'[1].sent).chunk_number >= 1
        /\ ~videos[h'[1].upload_id].exists)
          => ~videos'[h'[1].upload_id].exists]_vars

(* C26: when save_chunk fails and the answer is 500, the directory of the   *)
(* upload holds the files it held before the call, with the bytes they     *)
(* had; stated for requests whose chunk_number is at least 1.               *)
C26_FailedWriteLeavesStoreUnchanged ==
    [][(/\ nreq' = nreq + 1
        /\ h'[1].response.code = 500
        /\ h'[1].response.detail = "save_chunk"
        /\ UploadChunkParams(h'[1].sent).chunk_number >= 1)
          => chunks'[h'[1].upload_id] = chunks[h'[1].upload_id]]_vars

\* The tokens of a segment: the sum of its words' token counts.
RECURSIVE SumTokens(_)
SumTokens(segment) ==
    IF segment = <<>> THEN 0 ELSE CountTokens(Head(segment)) + SumTokens(Tail(segment))

\* The words of the segments, one segment after the other.
RECURSIVE WordsOf(_)
WordsOf(segments) ==
    IF segments = <<>> THEN <<>> ELSE Head(segments) \o WordsOf(Tail(segments))

(* C22: every segment _chunk_text returns has at most max_tokens tokens,    *)
(* also when one word alone has more.                                       *)
C22_ChunkingRespectsBound ==
    ai.pc = "chunked"
    => \A i \in 1..Len(ai.returned) : SumTokens(ai.returned[i]) <= ai.max_tokens

(* C28: the words of the segments _chunk_text returns, taken in order, are  *)
(* the words of the text in their order, and no segment is empty.           *)
C28_ChunkingLosesNothing ==
    ai.pc = "chunked"
    => /\ WordsOf(ai.returned) = ai.words
       /\ \A i \in 1..Len(ai.returned) : ai.returned[i] # <<>>

\* The least number of pieces of at most c bytes that hold S bytes.
CeilingOf(S, c) == CHOOSE n \in 0..S : n * c >= S /\ (n = 0 \/ (n - 1) * c < S)

(* C29: upload_video_in_chunks sends N = ceil(S / c) requests: the i-th is  *)
(* numbered i, declares N chunks and the one upload_id, and its body is the *)
(* bytes of the file from byte (i-1)c on, c of them, or those that are left *)
(* for the last (at least one); it returns after the N-th, with an          *)
(* upload_id, and after none when the file is empty.                        *)
C29_ClientSplittingIsPartition ==
    [][client.kind = "uploader" /\ client.pc = "loop"
       => LET S == Len(client.file)
              c == client.chunk_size
              N == CeilingOf(S, c)
              k == client.chunk_number
              body == h'[1].sent.file
          IN /\ client'.upload_id = client.upload_id
             /\ client'.pc = "loop"
                => /\ nreq' = nreq + 1
                   /\ h'[1].sent.chunk_number = nreq'
                   /\ client'.chunk_number = nreq' + 1
                   /\ nreq' <= N
                   /\ h'[1].sent.total_chunks = N
                   /\ h'[1].sent.upload_id = client.upload_id
                   /\ body # <<>>
                   /\ Len(body) <= c
                   /\ \A j \in 1..Len(body) : body[j] = client.file[(k - 1) * c + j]
                   /\ \/ Len(body) = c
                      \/ k = N /\ (k - 1) * c + Len(body) = S
             /\ client'.pc = "returned"
                => /\ nreq = N
                   /\ k = N + 1
                   /\ client'.upload_id # None
                   /\ UNCHANGED <<chunks, videos, h, nreq>>]_vars

\* A file of 3 bytes was sent in 2 chunks, of 2 bytes and of 1.
C29_Witness ==
    /\ client.kind = "uploader" /\ client.pc = "returned"
    /\ Len(client.file) = 3 /\ client.chunk_size = 2
    /\ nreq = 2 /\ h[1].sent.chunk_number = 2 /\ Len(h[1].sent.file) = 1

\* The POST of this step failed: the client got an error status or nothing.
PostFailed ==
    /\ Len(client'.responses) = Len(client.responses) + 1
    /\ client'.responses[Len(client'.responses)].code # 200

(* C23: when the POST for chunk k times out or is answered with an error    *)
(* status, upload_video_in_chunks raises; the server has handled the        *)
(* request at most once, and after that no request is sent and nothing      *)
(* changes on the server.                                                   *)
C23_ClientStopsOnFirstFailure ==
    [][client.kind = "uploader"
       => /\ PostFailed
             => /\ client'.pc = "raised"
                /\ client'.chunk_number = client.chunk_number
                /\ nreq' <= nreq + 1
          /\ client.pc # "raised"]_vars

\* The POST for chunk 2 of 3 failed and the uploader raised.
C23_Witness ==
    /\ client.kind = "uploader" /\ client.pc = "raised"
    /\ client.chunk_number = 2 /\ client.total_chunks = 3
    /\ Len(client.responses) = 2 /\ client.responses[1].code = 200

(* C30: the instance ConfigManager caches, and so every instance it         *)
(* returns, has app_config and ai_config set, and no get_config on it       *)
(* fails for want of them, also after a first construction that failed.     *)
C30_ConfigSingletonInitialised ==
    /\ config.cls_instance.made
       => {"app_config", "ai_config"} \subseteq config.cls_instance.attributes
    /\ \A i \in 1..Len(config.calls) :
          config.calls[i].call = "get_config" => config.calls[i].outcome = "returned"

====
